---- MODULE Spec2Model ----
(***************************************************************************)
(* The ECS World of simple-piston-engine (src/src/ecs.rs): a stack of      *)
(* WorldStates, each with an entity-id allocator, an active set and one    *)
(* component store per registered component type.  One action per public   *)
(* operation of World and per stack function; a panic ends the run.        *)
(***************************************************************************)
EXTENDS Integers, Sequences, FiniteSets, TLC

\* ---------------------------------------------------------------- bounds
\* The number of operations of one run.
MaxSteps == 6
\* Callers pass the entity ids 0 .. NumEnt-1 to add_comp / remove / contains.
NumEnt == 2

\* Entity ids are usize; the model gives usize IdBits bits.  A run of MaxSteps
\* operations cannot carry current_id to USIZE_MAX; a run of OverflowSteps can.
IdBits == 3

USIZE_MAX == 2^IdBits - 1

OverflowSteps == USIZE_MAX + 3

Entities == 0 .. (NumEnt - 1)
\* Component types (TypeId::of::<T>()) and component values.
Types == {"A", "B"}
Values == {6, 7}
NoType == "-"

VARIABLES
  stack,        \* World.world_state_stack, bottom first
  last_call,    \* the operation called last and its arguments
  last_ret,     \* what it returned
  panicked,     \* the last operation panicked: the run is over
  steps,        \* operations called so far
  budget,       \* operations the run may call
  overflow_checks,  \* the build's overflow-checks, "unset" until an addition overflows
  hist,         \* per WorldState: what the callers wrote to it (history)
  pushed_over,  \* per covered WorldState: its value when it was covered (history)
  state_stack,  \* Game.state_stack, bottom first: the State instances by number
  pc,           \* start_game's position, a line of game.rs; "off": no driver runs
  cb,           \* the State callback in progress and the instance it runs on
  state_trans,  \* the StateTrans the match of start_game is applying
  ticks,        \* events taken from the window so far
  life,         \* per State instance: the callbacks it received, in order (history)
  ws_owner      \* per WorldState: the instance it was pushed for (history)

\* The driver's variables.
game == <<state_stack, pc, cb, state_trans, ticks, life, ws_owner>>

vars == <<stack, last_call, last_ret, panicked, steps, budget, overflow_checks,
          hist, pushed_over, state_stack, pc, cb, state_trans, ticks, life,
          ws_owner>>

\* ------------------------------------------------------ finite maps
EmptyMap == [x \in {} |-> 0]

Restrict(f, S) == [x \in S |-> f[x]]

MapPut(f, k, v) == [x \in (DOMAIN f) \cup {k} |-> IF x = k THEN v ELSE f[x]]

Front(s) == SubSeq(s, 1, Len(s) - 1)

Last(s) == s[Len(s)]

\* ------------------------------------------------------ ComponentStore<T>
ComponentStore_new == EmptyMap

ComponentStore_insert(store, e, comp) == MapPut(store, e, comp)

ComponentStore_remove(store, e) == Restrict(store, (DOMAIN store) \ {e})

store_remove(store, e) == ComponentStore_remove(store, e)

\* ------------------------------------------------------ WorldState
WorldState_new ==
  [current_id |-> 0, reusable_ids |-> <<>>, active |-> {}, components |-> EmptyMap]

World_new == << WorldState_new >>

\* ------------------------------------------------------ the stack functions
\* push_state pushing a copy of the WorldState on top instead of a new one.
push_state_clone(world) ==
  Append(world, IF world = <<>> THEN WorldState_new ELSE Last(world))

push_state(world) == Append(world, WorldState_new)

\* pop_state refusing to pop the last WorldState.
pop_state_keep_one(world) ==
  IF Len(world) <= 1
    THEN [panic |-> TRUE, world |-> world]
    ELSE [panic |-> FALSE, world |-> Front(world)]

\* Vec::pop().expect(..): None, and so a panic, only on the empty stack.
pop_state(world) ==
  IF world = <<>>
    THEN [panic |-> TRUE, world |-> world]
    ELSE [panic |-> FALSE, world |-> Front(world)]

\* switch_state with its two calls in the other order: push, then pop.
switch_state_push_pop(world) == pop_state(push_state(world))

\* switch_state dropping the Option of Vec::pop() instead of expecting it.
switch_state_ignore_none(world) ==
  [panic |-> FALSE, world |-> push_state(IF world = <<>> THEN world ELSE Front(world))]

switch_state(world) ==
  LET popped == pop_state(world)
  IN  IF popped.panic
        THEN popped
        ELSE [panic |-> FALSE, world |-> push_state(popped.world)]

\* ------------------------------------------------------ World's methods
\* current_state / current_state_mut: last().expect(..) panics on the empty stack.
has_current_state(world) == world # <<>>

current_state(world) == Last(world)

\* current_state_mut handing out first_mut() instead of last_mut().
set_first_state(world, ws) == [world EXCEPT ![1] = ws]

set_current_state(world, ws) == [world EXCEPT ![Len(world)] = ws]

\* create reading the freed id with last() and leaving it in reusable_ids.
create_peek(ws) ==
  LET fresh  == ws.current_id
      new_id == IF ws.reusable_ids = <<>> THEN fresh ELSE Last(ws.reusable_ids)
  IN  [ret |-> new_id,
       overflow |-> fresh = USIZE_MAX,
       unwound  |-> ws,
       ws  |-> [ws EXCEPT !.current_id = (fresh + 1) % (USIZE_MAX + 1),
                          !.active = @ \cup {new_id}]]

\* create taking the oldest freed id (remove(0)) instead of the newest (pop()).
create_fifo(ws) ==
  LET fresh  == ws.current_id
      new_id == IF ws.reusable_ids = <<>> THEN fresh ELSE Head(ws.reusable_ids)
      rest   == IF ws.reusable_ids = <<>> THEN <<>> ELSE Tail(ws.reusable_ids)
  IN  [ret |-> new_id,
       overflow |-> fresh = USIZE_MAX,
       unwound  |-> [ws EXCEPT !.reusable_ids = rest],
       ws  |-> [ws EXCEPT !.reusable_ids = rest,
                          !.current_id = (fresh + 1) % (USIZE_MAX + 1),
                          !.active = @ \cup {new_id}]]

\* create that also drops what the stores hold for the id it returns.
create_clean(ws) ==
  LET popped == IF ws.reusable_ids = <<>> THEN -1 ELSE Last(ws.reusable_ids)
      rest   == IF ws.reusable_ids = <<>> THEN <<>> ELSE Front(ws.reusable_ids)
      fresh  == ws.current_id
      new_id == IF popped = -1 THEN fresh ELSE popped
  IN  [ret |-> new_id,
       overflow |-> fresh = USIZE_MAX,
       unwound  |-> [ws EXCEPT !.reusable_ids = rest],
       ws  |-> [ws EXCEPT !.reusable_ids = rest,
                          !.current_id = (fresh + 1) % (USIZE_MAX + 1),
                          !.active = @ \cup {new_id},
                          !.components =
                            [T \in DOMAIN @ |-> Restrict(@[T], (DOMAIN @[T]) \ {new_id})]]]

\* The argument of unwrap_or is evaluated before unwrap_or is called: the
\* counter is read and advanced on every call, after reusable_ids.pop().
\* current_id <= usize::MAX holds of every usize, so the else branch is dead.
\* The addition overflows at current_id = usize::MAX: ws is what a build
\* without overflow-checks goes on with (the counter wrapped to 0), unwound what
\* a build with overflow-checks leaves when the addition panics.
create(ws) ==
  LET popped    == IF ws.reusable_ids = <<>> THEN -1 ELSE Last(ws.reusable_ids)
      rest      == IF ws.reusable_ids = <<>> THEN <<>> ELSE Front(ws.reusable_ids)
      fresh     == ws.current_id
      new_id    == IF popped = -1 THEN fresh ELSE popped
  IN  [ret |-> new_id,
       overflow |-> fresh = USIZE_MAX,
       unwound  |-> [ws EXCEPT !.reusable_ids = rest],
       ws  |-> [ws EXCEPT !.reusable_ids = rest,
                          !.current_id = (fresh + 1) % (USIZE_MAX + 1),
                          !.active = @ \cup {new_id}]]

\* register_comp keeping the store of a type that is registered already
\* (entry().or_insert_with).
register_comp_keep(ws, T) ==
  IF T \in DOMAIN ws.components
    THEN ws
    ELSE [ws EXCEPT !.components = MapPut(@, T, ComponentStore_new)]

register_comp(ws, T) ==
  [ws EXCEPT !.components = MapPut(@, T, ComponentStore_new)]

\* add_comp creating the store of an unregistered type (entry().or_insert_with).
add_comp_or_insert(ws, T, e, comp) ==
  LET store == IF T \in DOMAIN ws.components THEN ws.components[T] ELSE ComponentStore_new
  IN  [panic |-> FALSE,
       ws |-> [ws EXCEPT !.components = MapPut(@, T, ComponentStore_insert(store, e, comp))]]

\* add_comp ignoring an entity that is not active.
add_comp_checked(ws, T, e, comp) ==
  IF T \in DOMAIN ws.components
    THEN [panic |-> FALSE,
          ws |-> IF e \in ws.active
                   THEN [ws EXCEPT !.components[T] = ComponentStore_insert(@, e, comp)]
                   ELSE ws]
    ELSE [panic |-> TRUE, ws |-> ws]

add_comp(ws, T, e, comp) ==
  IF T \in DOMAIN ws.components
    THEN [panic |-> FALSE,
          ws |-> [ws EXCEPT !.components[T] = ComponentStore_insert(@, e, comp)]]
    ELSE [panic |-> TRUE, ws |-> ws]

get_comp(ws, T) ==
  IF T \in DOMAIN ws.components
    THEN [panic |-> FALSE, ret |-> ws.components[T]]
    ELSE [panic |-> TRUE, ret |-> EmptyMap]

\* The caller's loop over the IterMut writes g[e] to the value of each pair.
get_comp_mut(ws, T, g) ==
  IF T \in DOMAIN ws.components
    THEN [panic |-> FALSE,
          ws |-> [ws EXCEPT !.components[T] =
                    [e \in DOMAIN @ |-> IF e \in DOMAIN g THEN g[e] ELSE @[e]]]]
    ELSE [panic |-> TRUE, ws |-> ws]

contains(ws, e) == e \in ws.active

\* remove without the test of active.contains(&e).
remove_unchecked(ws, e) ==
  [ws EXCEPT !.reusable_ids = Append(@, e),
             !.active = @ \ {e},
             !.components = [T \in DOMAIN @ |-> store_remove(@[T], e)]]

\* remove without the loop over the component stores.
remove_keep_stores(ws, e) ==
  IF e \in ws.active
    THEN [ws EXCEPT !.reusable_ids = Append(@, e), !.active = @ \ {e}]
    ELSE ws

remove(ws, e) ==
  IF e \in ws.active
    THEN [ws EXCEPT !.reusable_ids = Append(@, e),
                    !.active = @ \ {e},
                    !.components = [T \in DOMAIN @ |-> store_remove(@[T], e)]]
    ELSE ws

iter(ws) == ws.active

\* ------------------------------------------------------ history of the calls
\* What the callers of one WorldState did to it and saw from it, kept beside the
\* stack and never read by an operation.
\*   written[T]  the value last written for each entity by add_comp or through
\*               get_comp_mut since T was registered, dropped when an active
\*               entity is removed (a remove of an inactive id removes nothing)
\*   claimed[T]  the same, but dropped by every remove call for the entity,
\*               whether the entity was active or not
\*   freed       the ids of the removed entities that create has not returned
\*               since, oldest first
\*   issued      the ids create has returned
\*   creates     the number of create calls
Hist_new ==
  [written |-> EmptyMap, claimed |-> EmptyMap, freed |-> <<>>, issued |-> {}, creates |-> 0]

HistCreate(h, id) ==
  [h EXCEPT !.freed = SelectSeq(@, LAMBDA x : x # id),
            !.issued = @ \cup {id},
            !.creates = @ + 1]

HistRegister(h, T) ==
  [h EXCEPT !.written = MapPut(@, T, EmptyMap), !.claimed = MapPut(@, T, EmptyMap)]

\* A write to a type that no register_comp call named is no write.
HistAdd(h, T, e, comp) ==
  IF T \in DOMAIN h.written
    THEN [h EXCEPT !.written[T] = MapPut(@, e, comp), !.claimed[T] = MapPut(@, e, comp)]
    ELSE h

HistMut(h, T, g) ==
  LET assigned(m) == [e \in DOMAIN m |-> IF e \in DOMAIN g THEN g[e] ELSE m[e]]
  IN  IF T \in DOMAIN h.written
        THEN [h EXCEPT !.written[T] = assigned(@), !.claimed[T] = assigned(@)]
        ELSE h

HistRemove(h, e, was_active) ==
  LET dropped(m) == [T \in DOMAIN m |-> Restrict(m[T], (DOMAIN m[T]) \ {e})]
  IN  IF was_active
        THEN [h EXCEPT !.written = dropped(@),
                       !.claimed = dropped(@),
                       !.freed = Append(@, e)]
        ELSE [h EXCEPT !.claimed = dropped(@)]

SetLast(s, x) == [s EXCEPT ![Len(s)] = x]

\* ------------------------------------------------------ calls and results
Call(op, T, e, comp) == [op |-> op, type |-> T, e |-> e, val |-> comp]

NoRet == [id |-> -1, flag |-> FALSE, pairs |-> EmptyMap, ents |-> {}]

Running == ~panicked /\ steps < budget

\* An operation that panics changes nothing.
Panic(c) ==
  /\ last_call' = c
  /\ last_ret' = NoRet
  /\ panicked' = TRUE
  /\ steps' = steps + 1
  /\ UNCHANGED <<stack, hist, pushed_over, budget, overflow_checks>>
  /\ UNCHANGED game

Return(c, r) ==
  /\ last_call' = c
  /\ last_ret' = r
  /\ panicked' = FALSE
  /\ steps' = steps + 1
  /\ UNCHANGED <<budget, overflow_checks>>
  /\ UNCHANGED game

\* create's addition has overflowed in a build with overflow-checks: it panics
\* with the freed id already popped.
PanicOnOverflow(c, ws) ==
  /\ stack' = set_current_state(stack, ws)
  /\ last_call' = c
  /\ last_ret' = NoRet
  /\ panicked' = TRUE
  /\ steps' = steps + 1
  /\ overflow_checks' = "on"
  /\ UNCHANGED <<hist, pushed_over, budget>>
  /\ UNCHANGED game

\* create's addition has overflowed in a build without overflow-checks: the
\* counter wraps and create returns.
ReturnWrapped(c, r) ==
  /\ last_call' = c
  /\ last_ret' = r
  /\ panicked' = FALSE
  /\ steps' = steps + 1
  /\ overflow_checks' = "off"
  /\ UNCHANGED budget
  /\ UNCHANGED game

\* ------------------------------------------------------ the state
InitWorld ==
  /\ stack = World_new
  /\ last_call = Call("new", NoType, -1, 0)
  /\ last_ret = NoRet
  /\ panicked = FALSE
  /\ steps = 0
  /\ overflow_checks = "unset"
  /\ hist = << Hist_new >>
  /\ pushed_over = <<>>

NoCb == [kind |-> "-", sid |-> 0]

NoTrans == [kind |-> "-", by |-> 0, state |-> 0]

\* The World used on its own, as the tests of ecs.rs use it: no Game.
NoGame ==
  /\ state_stack = <<>>
  /\ pc = "off"
  /\ cb = NoCb
  /\ state_trans = NoTrans
  /\ ticks = 0
  /\ life = <<>>
  /\ ws_owner = <<>>

Init ==
  /\ InitWorld
  /\ budget = MaxSteps
  /\ NoGame

\* ------------------------------------------------------ the operations
Create ==
  /\ Running
  /\ LET c == Call("create", NoType, -1, 0)
     IN  IF ~has_current_state(stack)
           THEN Panic(c)
           ELSE LET r == create(current_state(stack))
                IN  IF ~r.overflow
                      THEN /\ stack' = set_current_state(stack, r.ws)
                           /\ hist' = SetLast(hist, HistCreate(Last(hist), r.ret))
                           /\ Return(c, [NoRet EXCEPT !.id = r.ret])
                           /\ UNCHANGED pushed_over
                      ELSE \/ /\ overflow_checks \in {"unset", "on"}
                              /\ PanicOnOverflow(c, r.unwound)
                           \/ /\ overflow_checks \in {"unset", "off"}
                              /\ stack' = set_current_state(stack, r.ws)
                              /\ hist' = SetLast(hist, HistCreate(Last(hist), r.ret))
                              /\ ReturnWrapped(c, [NoRet EXCEPT !.id = r.ret])
                              /\ UNCHANGED pushed_over

RegisterComp ==
  /\ Running
  /\ \E T \in Types :
       LET c == Call("register_comp", T, -1, 0)
       IN  IF ~has_current_state(stack)
             THEN Panic(c)
             ELSE /\ stack' = set_current_state(stack, register_comp(current_state(stack), T))
                  /\ hist' = SetLast(hist, HistRegister(Last(hist), T))
                  /\ Return(c, NoRet)
                  /\ UNCHANGED pushed_over

AddComp ==
  /\ Running
  /\ \E T \in Types, e \in Entities, comp \in Values :
       LET c == Call("add_comp", T, e, comp)
       IN  IF ~has_current_state(stack)
             THEN Panic(c)
             ELSE LET r == add_comp(current_state(stack), T, e, comp)
                  IN  IF r.panic
                        THEN Panic(c)
                        ELSE /\ stack' = set_current_state(stack, r.ws)
                             /\ hist' = SetLast(hist, HistAdd(Last(hist), T, e, comp))
                             /\ Return(c, NoRet)
                             /\ UNCHANGED pushed_over

GetComp ==
  /\ Running
  /\ \E T \in Types :
       LET c == Call("get_comp", T, -1, 0)
       IN  IF ~has_current_state(stack)
             THEN Panic(c)
             ELSE LET r == get_comp(current_state(stack), T)
                  IN  IF r.panic
                        THEN Panic(c)
                        ELSE /\ Return(c, [NoRet EXCEPT !.pairs = r.ret])
                             /\ UNCHANGED <<stack, hist, pushed_over>>

\* The caller walks the IterMut and assigns any value to each pair it yields.
GetCompMut ==
  /\ Running
  /\ \E T \in Types :
       LET c == Call("get_comp_mut", T, -1, 0)
       IN  IF ~has_current_state(stack)
             THEN Panic(c)
             ELSE LET yielded == get_comp(current_state(stack), T).ret
                  IN  \E g \in [DOMAIN yielded -> Values] :
                        LET r == get_comp_mut(current_state(stack), T, g)
                        IN  IF r.panic
                              THEN Panic(c)
                              ELSE /\ stack' = set_current_state(stack, r.ws)
                                   /\ hist' = SetLast(hist, HistMut(Last(hist), T, g))
                                   /\ Return(c, [NoRet EXCEPT !.pairs = yielded])
                                   /\ UNCHANGED pushed_over

Contains ==
  /\ Running
  /\ \E e \in Entities :
       LET c == Call("contains", NoType, e, 0)
       IN  IF ~has_current_state(stack)
             THEN Panic(c)
             ELSE /\ Return(c, [NoRet EXCEPT !.flag = contains(current_state(stack), e)])
                  /\ UNCHANGED <<stack, hist, pushed_over>>

Remove ==
  /\ Running
  /\ \E e \in Entities :
       LET c == Call("remove", NoType, e, 0)
       IN  IF ~has_current_state(stack)
             THEN Panic(c)
             ELSE /\ stack' = set_current_state(stack, remove(current_state(stack), e))
                  /\ hist' = SetLast(hist, HistRemove(Last(hist), e, e \in current_state(stack).active))
                  /\ Return(c, NoRet)
                  /\ UNCHANGED pushed_over

Iter ==
  /\ Running
  /\ LET c == Call("iter", NoType, -1, 0)
     IN  IF ~has_current_state(stack)
           THEN Panic(c)
           ELSE /\ Return(c, [NoRet EXCEPT !.ents = iter(current_state(stack))])
                /\ UNCHANGED <<stack, hist, pushed_over>>

\* pushed_over gains the WorldState that the push covers, and loses it again
\* when the WorldState above it is popped.
PushState ==
  /\ Running
  /\ stack' = push_state(stack)
  /\ hist' = Append(hist, Hist_new)
  /\ pushed_over' = IF stack = <<>> THEN pushed_over ELSE Append(pushed_over, Last(stack))
  /\ Return(Call("push_state", NoType, -1, 0), NoRet)

PopState ==
  /\ Running
  /\ LET c == Call("pop_state", NoType, -1, 0)
         r == pop_state(stack)
     IN  IF r.panic
           THEN Panic(c)
           ELSE /\ stack' = r.world
                /\ hist' = Front(hist)
                /\ pushed_over' = IF pushed_over = <<>> THEN pushed_over ELSE Front(pushed_over)
                /\ Return(c, NoRet)

SwitchState ==
  /\ Running
  /\ LET c == Call("switch_state", NoType, -1, 0)
         r == switch_state(stack)
     IN  IF r.panic
           THEN Panic(c)
           ELSE /\ stack' = r.world
                /\ hist' = Append(Front(hist), Hist_new)
                /\ UNCHANGED pushed_over
                /\ Return(c, NoRet)

Next ==
  \/ Create
  \/ RegisterComp
  \/ AddComp
  \/ GetComp
  \/ GetCompMut
  \/ Contains
  \/ Remove
  \/ Iter
  \/ PushState
  \/ PopState
  \/ SwitchState

Spec == Init /\ [][Next]_vars

\* ------------------------------------------------------ runs up to the overflow
\* Runs of create and remove long enough for current_id to reach USIZE_MAX.
InitOverflow ==
  /\ InitWorld
  /\ budget = OverflowSteps
  /\ NoGame

NextOverflow ==
  \/ Create
  \/ Remove

SpecOverflow == InitOverflow /\ [][NextOverflow]_vars

\* ------------------------------------------------------ game.rs: the driver
\* Events the window delivers in a run, and World operations the callbacks of a
\* run may call.
MaxTicks == 3

GameSteps == 2

\* Game::current_state that falls back to the initial State, instance 1, instead
\* of panicking on the empty state stack.
Game_current_state_or_initial(ss) ==
  [panic |-> FALSE, state |-> IF ss = <<>> THEN 1 ELSE Last(ss)]

\* Game::current_state: last_mut().expect(..) panics on the empty state stack.
Game_current_state(ss) ==
  IF ss = <<>>
    THEN [panic |-> TRUE, state |-> 0]
    ELSE [panic |-> FALSE, state |-> Last(ss)]

\* Game::pop: ecs::pop_state(world), then state_stack.pop().expect(..).  Either
\* may panic; the second panics with the World already popped.
Game_pop(world, ss) ==
  LET r == pop_state(world)
  IN  IF r.panic
        THEN [panic |-> TRUE, world |-> world, state_stack |-> ss]
        ELSE IF ss = <<>>
               THEN [panic |-> TRUE, world |-> r.world, state_stack |-> ss]
               ELSE [panic |-> FALSE, world |-> r.world, state_stack |-> Front(ss)]

\* Game::push that forgets ecs::push_state.
Game_push_states_only(world, ss, state) ==
  [panic |-> FALSE, world |-> world, state_stack |-> Append(ss, state)]

\* Game::push: ecs::push_state(world), then state_stack.push(state).
Game_push(world, ss, state) ==
  [panic |-> FALSE, world |-> push_state(world), state_stack |-> Append(ss, state)]

\* Game::switch: ecs::switch_state(world), state_stack.pop().expect(..), then
\* state_stack.push(state).
Game_switch(world, ss, state) ==
  LET r == switch_state(world)
  IN  IF r.panic
        THEN [panic |-> TRUE, world |-> world, state_stack |-> ss]
        ELSE IF ss = <<>>
               THEN [panic |-> TRUE, world |-> r.world, state_stack |-> ss]
               ELSE [panic |-> FALSE, world |-> r.world,
                     state_stack |-> Append(Front(ss), state)]

\* What start_game does at a line: a callback on current_state(), or a call of
\* Game::pop / push / switch.
start_game_stmt(line) ==
  CASE line \in {"L23", "L35", "L40"} -> "init"
    [] line = "L26" -> "update"
    [] line \in {"L30", "L38"} -> "exit"
    [] line = "L31" -> "pop"
    [] line = "L34" -> "push"
    [] line = "L39" -> "switch"
    [] OTHER -> "-"

\* start_game whose Swap arm switches before it calls exit.
start_game_switch_first(line, trans) ==
  CASE line = "L23" -> "L25"
    [] line = "L25" -> "L26"
    [] line = "L26" /\ trans = "None" -> "L25"
    [] line = "L26" /\ trans = "Pop" -> "L30"
    [] line = "L26" /\ trans = "Push" -> "L34"
    [] line = "L26" /\ trans = "Swap" -> "L39"
    [] line = "L30" -> "L31"
    [] line = "L34" -> "L35"
    [] line = "L39" -> "L38"
    [] line = "L38" -> "L40"
    [] OTHER -> "L25"

\* start_game whose Pop arm calls init on the state it uncovers.
start_game_init_on_pop(line, trans) ==
  CASE line = "L23" -> "L25"
    [] line = "L25" -> "L26"
    [] line = "L26" /\ trans = "None" -> "L25"
    [] line = "L26" /\ trans = "Pop" -> "L30"
    [] line = "L26" /\ trans = "Push" -> "L34"
    [] line = "L26" /\ trans = "Swap" -> "L38"
    [] line = "L30" -> "L31"
    [] line = "L31" -> "L35"
    [] line = "L34" -> "L35"
    [] line = "L38" -> "L39"
    [] line = "L39" -> "L40"
    [] OTHER -> "L25"

\* The line start_game goes to after a line; trans is what update returned.
\* L23: init of the initial state.  L25: while let Some(event) = window.next().
\* L26: update.  L28: None.  L30, L31: Pop.  L34, L35: Push.  L38 .. L40: Swap.
start_game(line, trans) ==
  CASE line = "L23" -> "L25"
    [] line = "L25" -> "L26"
    [] line = "L26" /\ trans = "None" -> "L25"
    [] line = "L26" /\ trans = "Pop" -> "L30"
    [] line = "L26" /\ trans = "Push" -> "L34"
    [] line = "L26" /\ trans = "Swap" -> "L38"
    [] line = "L30" -> "L31"
    [] line = "L34" -> "L35"
    [] line = "L38" -> "L39"
    [] line = "L39" -> "L40"
    [] OTHER -> "L25"

StateTrans == {"None", "Pop", "Push", "Swap"}

\* Game::new(init_state) and start_game up to line 21: one State, instance 1, on
\* the state stack and a new World.
InitGame ==
  /\ InitWorld
  /\ budget = GameSteps
  /\ state_stack = <<1>>
  /\ pc = "L23"
  /\ cb = NoCb
  /\ state_trans = NoTrans
  /\ ticks = 0
  /\ life = << <<>> >>
  /\ ws_owner = <<1>>

Driving == ~panicked /\ pc \notin {"off", "returned"} /\ cb = NoCb

\* A panic in the driver's own code ends the run.
GamePanic ==
  /\ panicked' = TRUE
  /\ UNCHANGED <<last_call, last_ret, steps, budget, overflow_checks>>

GameGoesOn ==
  UNCHANGED <<last_call, last_ret, panicked, steps, budget, overflow_checks>>

\* The match arm is over: state_trans is dropped at the loop head.
Applied(line, trans) == IF line = "L25" THEN NoTrans ELSE trans

\* window.next() at line 25: the next event, or None when the window closes.
NextEvent ==
  /\ Driving
  /\ pc = "L25"
  /\ \/ /\ ticks < MaxTicks
        /\ ticks' = ticks + 1
        /\ pc' = start_game(pc, "-")
     \/ /\ pc' = "returned"
        /\ UNCHANGED ticks
  /\ GameGoesOn
  /\ UNCHANGED <<stack, hist, pushed_over, state_stack, cb, state_trans, life, ws_owner>>

\* self.current_state().init / update / exit at lines 23, 26, 30, 35, 38, 40:
\* the callback is entered on the instance current_state() yields.
CallCallback ==
  /\ Driving
  /\ start_game_stmt(pc) \in {"init", "update", "exit"}
  /\ LET r == Game_current_state(state_stack)
     IN  IF r.panic
           THEN /\ GamePanic
                /\ UNCHANGED <<cb, life>>
           ELSE /\ cb' = [kind |-> start_game_stmt(pc), sid |-> r.state]
                /\ life' = [life EXCEPT ![r.state] = Append(@, start_game_stmt(pc))]
                /\ GameGoesOn
  /\ UNCHANGED <<stack, hist, pushed_over, state_stack, pc, state_trans, ticks, ws_owner>>

\* The callback returns.  update returns any StateTrans; the State of a Push or
\* a Swap is a new Box, instance Len(life) + 1.
ReturnCallback ==
  /\ ~panicked
  /\ cb # NoCb
  /\ cb' = NoCb
  /\ IF cb.kind = "update"
       THEN \E t \in StateTrans :
              LET boxed == t \in {"Push", "Swap"}
                  trans == [kind |-> t, by |-> cb.sid,
                            state |-> IF boxed THEN Len(life) + 1 ELSE 0]
              IN  /\ pc' = start_game(pc, t)
                  /\ state_trans' = Applied(pc', trans)
                  /\ life' = IF boxed THEN Append(life, <<>>) ELSE life
       ELSE /\ pc' = start_game(pc, state_trans.kind)
            /\ state_trans' = Applied(pc', state_trans)
            /\ UNCHANGED life
  /\ GameGoesOn
  /\ UNCHANGED <<stack, hist, pushed_over, state_stack, ticks, ws_owner>>

\* The driver's statement is done, or has panicked.
GameStmtDone(r) ==
  /\ stack' = r.world
  /\ state_stack' = r.state_stack
  /\ IF r.panic
       THEN /\ GamePanic
            /\ UNCHANGED <<pc, state_trans>>
       ELSE /\ GameGoesOn
            /\ pc' = start_game(pc, state_trans.kind)
            /\ state_trans' = Applied(pc', state_trans)
  /\ UNCHANGED <<cb, ticks, life>>

\* self.pop(&mut world) at line 31.
GamePop ==
  /\ Driving
  /\ start_game_stmt(pc) = "pop"
  /\ LET r == Game_pop(stack, state_stack)
         popped == Len(r.world) < Len(stack)
     IN  /\ GameStmtDone(r)
         /\ hist' = IF popped THEN Front(hist) ELSE hist
         /\ pushed_over' = IF popped /\ pushed_over # <<>>
                             THEN Front(pushed_over) ELSE pushed_over
         /\ ws_owner' = IF popped THEN Front(ws_owner) ELSE ws_owner

\* self.push(&mut world, state) at line 34.
GamePush ==
  /\ Driving
  /\ start_game_stmt(pc) = "push"
  /\ LET r == Game_push(stack, state_stack, state_trans.state)
         pushed == Len(r.world) > Len(stack)
     IN  /\ GameStmtDone(r)
         /\ hist' = IF pushed THEN Append(hist, Hist_new) ELSE hist
         /\ pushed_over' = IF pushed /\ stack # <<>>
                             THEN Append(pushed_over, Last(stack)) ELSE pushed_over
         /\ ws_owner' = IF pushed THEN Append(ws_owner, state_trans.state) ELSE ws_owner

\* self.switch(&mut world, state) at line 39.
GameSwitch ==
  /\ Driving
  /\ start_game_stmt(pc) = "switch"
  /\ LET r == Game_switch(stack, state_stack, state_trans.state)
         switched == ~switch_state(stack).panic
     IN  /\ GameStmtDone(r)
         /\ hist' = IF switched THEN Append(Front(hist), Hist_new) ELSE hist
         /\ UNCHANGED pushed_over
         /\ ws_owner' = IF switched
                          THEN Append(Front(ws_owner), state_trans.state)
                          ELSE ws_owner

\* A callback holds &mut World and calls its public methods; push_state,
\* pop_state and switch_state are not exported to it (lib.rs line 7).
InCallback == cb # NoCb

CallbackCreate == InCallback /\ Create

CallbackRegisterComp == InCallback /\ RegisterComp

CallbackAddComp == InCallback /\ AddComp

CallbackRemove == InCallback /\ Remove

NextGame ==
  \/ NextEvent
  \/ CallCallback
  \/ ReturnCallback
  \/ GamePop
  \/ GamePush
  \/ GameSwitch
  \/ CallbackCreate
  \/ CallbackRegisterComp
  \/ CallbackAddComp
  \/ CallbackRemove

SpecGame == InitGame /\ [][NextGame]_vars

\* ------------------------------------------------------ steps of a behaviour
\* The step is a call of op that returned.
Returned(op) == last_call'.op = op /\ ~panicked'

\* The step is a call of op that panicked.
Panicked(op) == last_call'.op = op /\ panicked'

\* The WorldState on top before and after the step.
Top == current_state(stack)

SeqElems(s) == {s[i] : i \in 1 .. Len(s)}

\* ------------------------------------------------------ C1
\* C1: create returns an entity that was not active in the top WorldState before
\* the call and is active after it (contains is true), so the active set grows by
\* exactly one entity and no two active entities share an id; contains(e) is
\* false right after remove(e).
C1_CreateFreshRemoveGone ==
  [][ /\ Returned("create") =>
           /\ ~contains(Top, last_ret'.id)
           /\ contains(current_state(stack'), last_ret'.id)
           /\ iter(current_state(stack')) = iter(Top) \cup {last_ret'.id}
           /\ Cardinality(iter(current_state(stack'))) = Cardinality(iter(Top)) + 1
      /\ Returned("remove") => ~contains(current_state(stack'), last_call'.e)
    ]_vars

\* create has just reused id 0 while entity 1 is active: create, create,
\* remove(0), create.
C1_Witness ==
  /\ last_call.op = "create" /\ ~panicked
  /\ last_ret.id = 0
  /\ stack # <<>>
  /\ Top.active = {0, 1}
  /\ Top.current_id = 3

\* ------------------------------------------------------ C2
\* C2: while the top WorldState has a freed id that was not reissued, create
\* returns the most recently freed such id (and so no id of the fresh counter);
\* remove(a); remove(b); create() = b; create() = a.
C2_ReuseMostRecentlyFreed ==
  [][ Returned("create") /\ Last(hist).freed # <<>> =>
        /\ last_ret'.id = Last(Last(hist).freed)
        /\ Last(hist').freed = Front(Last(hist).freed)
    ]_vars

\* 0 was freed, then 1 was freed, and create has just returned 1: 0 is the one
\* freed id left.
C2_Witness ==
  /\ last_call.op = "create" /\ ~panicked
  /\ last_ret.id = 1
  /\ Last(hist).freed = <<0>>
  /\ Last(hist).issued = {0, 1}

\* ------------------------------------------------------ C3
\* C3: current_id counts the fresh allocations only: a create that reuses a freed
\* id, and remove, leave current_id unchanged; a create that mints a fresh id
\* returns current_id and adds one to it, the first fresh id being 0, so the ids
\* issued so far are exactly those below current_id.
C3_CounterCountsFreshOnly ==
  [][ /\ Returned("create") /\ Last(hist).freed # <<>> =>
           current_state(stack').current_id = Top.current_id
      /\ Returned("create") /\ Last(hist).freed = <<>> =>
           /\ last_ret'.id = Top.current_id
           /\ current_state(stack').current_id = Top.current_id + 1
           /\ Last(hist').issued = 0 .. last_ret'.id
      /\ Returned("remove") => current_state(stack').current_id = Top.current_id
    ]_vars

\* ------------------------------------------------------ C4
\* C4 as claimed: get_comp::<T>() returns exactly the pairs (entity, value) whose
\* value is the one written last for the entity by add_comp or through
\* get_comp_mut, and no pair for an entity that remove was called for after its
\* last add_comp (read in the claim's favour where it is silent: a
\* register_comp::<T>() starts T's pairs anew).
C4_GetYieldsClaimed ==
  last_call.op = "get_comp" /\ ~panicked =>
    last_ret.pairs = Last(hist).claimed[last_call.type]

\* C4 as amended: for every type T registered in the top WorldState,
\* get_comp::<T>() yields exactly the pairs (entity, value) whose value is the
\* one written last for the entity, since register_comp::<T>() was last called
\* in this WorldState, by add_comp or through get_comp_mut, and no pair for an
\* entity that was active when remove was called for it after its last add_comp
\* (a remove of an inactive id leaves its pair); what a get_comp call returned is
\* that set.
C4_GetYieldsLastWritten ==
  /\ stack # <<>> =>
       \A T \in DOMAIN Last(hist).written :
         /\ ~get_comp(Top, T).panic
         /\ get_comp(Top, T).ret = Last(hist).written[T]
  /\ last_call.op = "get_comp" /\ ~panicked =>
       last_ret.pairs = Last(hist).written[last_call.type]

\* get_comp has just returned the one pair (1, 7) of a store that held a pair for
\* entity 0 until 0 was removed.
C4_Witness ==
  /\ last_call.op = "get_comp" /\ ~panicked
  /\ last_ret.pairs = [e \in {1} |-> 7]
  /\ Last(hist).freed = <<0>>
  /\ 0 \notin Top.active

\* ------------------------------------------------------ C5
\* C5: no operation changes a WorldState beneath the top of the stack, and the
\* WorldState on top after a pop_state is equal, field by field, to what it was
\* right before the push_state that covered it.
C5_PopRestoresCovered ==
  [][ /\ \A i \in 1 .. (Len(stack) - 1) : i <= Len(stack') => stack'[i] = stack[i]
      /\ Returned("pop_state") /\ stack' # <<>> =>
           current_state(stack') = Last(pushed_over)
    ]_vars

\* pop_state has just uncovered a WorldState with an active entity that has a
\* component, after an operation on the WorldState above it.
C5_Witness ==
  /\ last_call.op = "pop_state" /\ ~panicked
  /\ Len(stack) = 1
  /\ Top.active = {0}
  /\ "A" \in DOMAIN Top.components
  /\ Top.components["A"] = [e \in {0} |-> 6]
  /\ steps = MaxSteps

\* ------------------------------------------------------ C6
\* C6: right after push_state the top WorldState is empty whatever lies beneath:
\* contains is false for every entity, no type is registered, no freed id waits
\* for reuse; the first create of a WorldState returns 0, and a create returns
\* either an id freed in its own WorldState or one never issued in it.
C6_PushedStateIsEmpty ==
  [][ /\ Returned("push_state") =>
           /\ \A e \in Entities : ~contains(current_state(stack'), e)
           /\ iter(current_state(stack')) = {}
           /\ \A T \in Types : get_comp(current_state(stack'), T).panic
           /\ create(current_state(stack')).ret = 0
      /\ Returned("create") /\ Last(hist).creates = 0 => last_ret'.id = 0
      /\ Returned("create") =>
           \/ last_ret'.id \in SeqElems(Last(hist).freed)
           \/ last_ret'.id \notin Last(hist).issued
    ]_vars

\* push_state has just covered a WorldState with an active entity, a freed id
\* and a registered type.
C6_Witness ==
  /\ last_call.op = "push_state"
  /\ Len(stack) = 2
  /\ stack[1].active = {1}
  /\ stack[1].reusable_ids = <<0>>
  /\ "A" \in DOMAIN stack[1].components

\* ------------------------------------------------------ C7
\* C7 as claimed: in every state reached through calls that did not fail the
\* World stack holds at least one WorldState (pop_state of the only WorldState
\* being a fatal error).
C7_StackNeverEmpty == ~panicked => Len(stack) >= 1

\* C7 as amended: pop_state is a fatal error exactly when the World stack is
\* empty; popping the only WorldState succeeds and leaves the stack empty, so
\* the stack may be empty after calls that did not fail; a pop_state that
\* returns removes exactly the top WorldState.
C7_PopFailsOnlyOnEmpty ==
  [][ /\ last_call'.op = "pop_state" =>
           /\ panicked' <=> Len(stack) = 0
           /\ Len(stack) = 1 => ~panicked' /\ stack' = <<>>
      /\ Returned("pop_state") => stack' = Front(stack)
      /\ Panicked("pop_state") => stack' = stack
    ]_vars

\* pop_state has just panicked on the empty stack, which the pop of the only
\* WorldState left behind.
C7_Witness ==
  /\ last_call.op = "pop_state" /\ panicked
  /\ stack = <<>>

\* ------------------------------------------------------ C8
\* C8: switch_state fails exactly where pop_state fails, on the empty stack, and
\* then pushes nothing; otherwise it leaves the depth unchanged, leaves an empty
\* WorldState on top and leaves every WorldState beneath unchanged: the World it
\* leaves is the one pop_state followed by push_state leaves.
C8_SwitchIsPopThenPush ==
  [][ /\ last_call'.op = "switch_state" => (panicked' <=> stack = <<>>)
      /\ Panicked("switch_state") => stack' = stack
      /\ Returned("switch_state") =>
           /\ Len(stack') = Len(stack)
           /\ current_state(stack') = WorldState_new
           /\ \A i \in 1 .. (Len(stack) - 1) : stack'[i] = stack[i]
           /\ stack' = Append(Front(stack), WorldState_new)
    ]_vars

\* switch_state has just replaced the top of a stack of two whose lower
\* WorldState has an active entity with a component.
C8_Witness ==
  /\ last_call.op = "switch_state" /\ ~panicked
  /\ Len(stack) = 2
  /\ stack[1].active = {0}
  /\ "A" \in DOMAIN stack[1].components
  /\ 0 \in DOMAIN stack[1].components["A"]

\* ------------------------------------------------------ C9
\* C9: remove(e) of an entity that is not active in the top WorldState returns
\* and leaves the whole World unchanged: the active set, reusable_ids (no second
\* push of the id), current_id, every component store and every WorldState
\* beneath.
C9_RemoveInactiveIsNoOp ==
  [][ last_call'.op = "remove" /\ stack # <<>> /\ ~contains(Top, last_call'.e) =>
        /\ ~panicked'
        /\ stack' = stack
    ]_vars

\* remove(0) has just been called for the removed entity 0, which was given a
\* component while inactive: the id waits once in reusable_ids and the
\* component is still stored.
C9_Witness ==
  /\ last_call.op = "remove" /\ ~panicked
  /\ last_call.e = 0
  /\ stack # <<>>
  /\ Top.reusable_ids = <<0>>
  /\ "A" \in DOMAIN Top.components
  /\ 0 \in DOMAIN Top.components["A"]

\* ------------------------------------------------------ C10
\* C10: with a WorldState on top, add_comp, get_comp and get_comp_mut of a type T
\* panic exactly when register_comp::<T>() was not called in the top WorldState
\* since it was pushed, whatever is registered beneath; a panicking call changes
\* nothing.
C10_UnregisteredTypeIsFatal ==
  [][ last_call'.op \in {"add_comp", "get_comp", "get_comp_mut"} /\ stack # <<>> =>
        /\ panicked' <=> last_call'.type \notin DOMAIN Last(hist).written
        /\ panicked' => stack' = stack
    ]_vars

\* add_comp of type A has just panicked in a pushed WorldState while A is
\* registered in the WorldState beneath.
C10_Witness ==
  /\ last_call.op = "add_comp" /\ panicked
  /\ last_call.type = "A"
  /\ Len(stack) = 2
  /\ "A" \in DOMAIN stack[1].components

\* ------------------------------------------------------ C11
\* C11: on the empty World stack pop_state, switch_state and every method of
\* World (create, register_comp, add_comp, get_comp, get_comp_mut, contains,
\* remove, iter) panic and leave the stack empty, switch_state pushing nothing;
\* push_state is the one operation that returns, with one WorldState on the
\* stack.
C11_EmptyStackOnlyPushWorks ==
  [][ stack = <<>> =>
        /\ last_call'.op = "push_state" => ~panicked' /\ Len(stack') = 1
        /\ last_call'.op # "push_state" => panicked' /\ stack' = <<>>
    ]_vars

\* switch_state has just panicked on the empty stack and pushed nothing.
C11_Witness ==
  /\ last_call.op = "switch_state" /\ panicked
  /\ stack = <<>>

\* ------------------------------------------------------ C14
\* The entities T's store of WorldState ws holds a value for.
Stored(ws, T) == IF T \in DOMAIN ws.components THEN DOMAIN ws.components[T] ELSE {}

\* C14 as claimed: in every WorldState of the stack, every component store holds
\* an entry for an entity only if the entity is active.
C14_StoresHoldActiveOnly ==
  \A i \in 1 .. Len(stack) : \A T \in Types : Stored(stack[i], T) \subseteq stack[i].active

\* C14 as amended: a store holds an entry for an inactive id only if add_comp
\* put it there while the id was inactive: an entry for an inactive id either
\* was one before the step or is the entry the step's add_comp wrote, so remove
\* leaves no entry of the entity it removes and nothing but add_comp makes one.
C14_InactiveEntriesComeFromAdd ==
  [][ \A i \in 1 .. Len(stack') : \A T \in Types :
        \A e \in Stored(stack'[i], T) \ stack'[i].active :
          \/ /\ i <= Len(stack)
             /\ e \in Stored(stack[i], T) \ stack[i].active
          \/ /\ Returned("add_comp")
             /\ i = Len(stack')
             /\ last_call'.type = T
             /\ last_call'.e = e
    ]_vars

\* remove(0) has just removed the active entity 0 with its component, and the
\* component added to the id 1, never created, is the one entry left.
C14_Witness ==
  /\ last_call.op = "remove" /\ last_call.e = 0
  /\ stack # <<>>
  /\ Top.reusable_ids = <<0>>
  /\ Top.current_id = 1
  /\ Stored(Top, "A") = {1}

\* ------------------------------------------------------ C15
\* C15: in every WorldState of the stack every id is in exactly one of three
\* classes: active, in reusable_ids, or fresh and unused (id >= current_id).
C15_IdClassesPartition ==
  \A i \in 1 .. Len(stack) : \A id \in 0 .. (stack[i].current_id + 1) :
    LET is_active == id \in stack[i].active
        is_freed  == id \in SeqElems(stack[i].reusable_ids)
        is_fresh  == id >= stack[i].current_id
    IN  /\ is_active \/ is_freed \/ is_fresh
        /\ ~(is_active /\ is_freed)
        /\ ~(is_active /\ is_fresh)
        /\ ~(is_freed /\ is_fresh)

C17_AddStoresForAnyId ==
  [][ last_call'.op = "add_comp" /\ stack # <<>> /\ last_call'.type \in DOMAIN Top.components =>
        LET T     == last_call'.type
            e     == last_call'.e
            after == current_state(stack')
        IN  /\ ~panicked'
            /\ Len(stack') = Len(stack)
            /\ \A i \in 1 .. (Len(stack) - 1) : stack'[i] = stack[i]
            /\ after.active = Top.active
            /\ after.reusable_ids = Top.reusable_ids
            /\ after.current_id = Top.current_id
            /\ DOMAIN after.components = DOMAIN Top.components
            /\ \A T2 \in DOMAIN Top.components \ {T} : after.components[T2] = Top.components[T2]
            /\ DOMAIN after.components[T] = DOMAIN Top.components[T] \cup {e}
            /\ after.components[T][e] = last_call'.val
            /\ \A e2 \in DOMAIN Top.components[T] \ {e} :
                 after.components[T][e2] = Top.components[T][e2]
    ]_vars

\* add_comp has just stored 7 for the id 1, which create never returned, beside
\* the component of the active entity 0.
C17_Witness ==
  /\ last_call = Call("add_comp", "A", 1, 7) /\ ~panicked
  /\ Top.current_id = 1
  /\ Top.active = {0}
  /\ Top.components["A"] = [e \in {0, 1} |-> IF e = 0 THEN 6 ELSE 7]

\* ------------------------------------------------------ C19
\* C19: register_comp::<T>() leaves T's store in the top WorldState empty,
\* whatever it held, and everything else unchanged: the other stores, the
\* active set, reusable_ids, current_id and the WorldStates beneath.
C19_RegisterInstallsEmptyStore ==
  [][ last_call'.op = "register_comp" /\ stack # <<>> =>
        LET T     == last_call'.type
            after == current_state(stack')
        IN  /\ ~panicked'
            /\ Len(stack') = Len(stack)
            /\ \A i \in 1 .. (Len(stack) - 1) : stack'[i] = stack[i]
            /\ after.active = Top.active
            /\ after.reusable_ids = Top.reusable_ids
            /\ after.current_id = Top.current_id
            /\ DOMAIN after.components = DOMAIN Top.components \cup {T}
            /\ after.components[T] = EmptyMap
            /\ \A T2 \in DOMAIN Top.components \ {T} : after.components[T2] = Top.components[T2]
    ]_vars

\* register_comp::<A>() has just returned in a WorldState with an active entity,
\* a freed id and a pair in B's store.
C19_Witness ==
  /\ last_call.op = "register_comp" /\ last_call.type = "A" /\ ~panicked
  /\ stack # <<>>
  /\ Top.active = {1}
  /\ Top.reusable_ids = <<0>>
  /\ Stored(Top, "B") = {1}
  /\ Stored(Top, "A") = {}

\* ------------------------------------------------------ C18
\* C18: a call of create on a non-empty stack fails exactly when the counter
\* cannot be advanced (current_id = USIZE_MAX); a create that returns has moved
\* the counter up, never around, and returns an id that was not active.
C18_CreateFailsAtRangeEndNeverWraps ==
  [][(last_call'.op = "create" /\ has_current_state(stack)) =>
       /\ panicked' <=> (Top.current_id = USIZE_MAX)
       /\ ~panicked' => /\ current_state(stack').current_id > Top.current_id
                        /\ last_ret'.id \notin Top.active]_vars

\* ------------------------------------------------------ C12
\* C12: in every state of a run of start_game the state stack and the World's
\* stack have the same depth, and every WorldState is the one pushed for the
\* State instance at its depth: no push, pop or switch has acted on one stack
\* alone.  This covers the start of every event tick (line 25) and the state
\* after every applied transition.
C12_StacksInLockstep ==
  /\ Len(state_stack) = Len(stack)
  /\ ws_owner = state_stack

\* The loop head after a Push and a Swap on top of it have been applied: two
\* instances, the upper one swapped in, on a World of depth two.
C12_Witness ==
  /\ pc = "L25"
  /\ ~panicked
  /\ ticks = 2
  /\ state_stack = <<1, 3>>
  /\ Len(stack) = 2
  /\ Len(life) = 3
  /\ life[2] = <<"init", "update", "exit">>

\* ------------------------------------------------------ C13
\* C13: every callback is entered on the instance on top of the state stack,
\* with the WorldState pushed for that instance on top of the World.  In a Push
\* the callback is init of the new state, entered after both pushes on an empty
\* WorldState, the pushing state right below it and not exited.  In a Pop the
\* callback is exit of the state that returned Pop, and the two pops follow it.
\* In a Swap exit of the old state is entered before the switch, on its own
\* WorldState, and init of the new state after it, on an empty WorldState.
C13_CallbacksActOnOwnWorldState ==
  [][/\ (cb = NoCb /\ cb' # NoCb) =>
          /\ Len(stack) = Len(state_stack)
          /\ cb'.sid = Last(state_stack)
          /\ Last(ws_owner) = cb'.sid
          /\ state_trans.kind = "Push" =>
               /\ cb'.kind = "init"
               /\ cb'.sid = state_trans.state
               /\ Top = WorldState_new
               /\ Len(state_stack) >= 2
               /\ state_stack[Len(state_stack) - 1] = state_trans.by
               /\ "exit" \notin SeqElems(life[state_trans.by])
          /\ state_trans.kind = "Pop" =>
               /\ cb'.kind = "exit"
               /\ cb'.sid = state_trans.by
          /\ state_trans.kind = "Swap" =>
               \/ /\ cb'.kind = "exit"
                  /\ cb'.sid = state_trans.by
               \/ /\ cb'.kind = "init"
                  /\ cb'.sid = state_trans.state
                  /\ Top = WorldState_new
                  /\ Last(life[state_trans.by]) = "exit"
                  /\ state_trans.by \notin SeqElems(state_stack)
     /\ (state_stack' # state_stack \/ ws_owner' # ws_owner \/ Len(stack') # Len(stack)) =>
          /\ cb = NoCb
          /\ state_trans.kind \in {"Push", "Pop", "Swap"}
          /\ state_trans.kind = "Push" =>
               /\ life[state_trans.state] = <<>>
               /\ state_stack' = Append(state_stack, state_trans.state)
               /\ stack' = Append(stack, WorldState_new)
          /\ state_trans.kind = "Pop" =>
               /\ Last(life[state_trans.by]) = "exit"
               /\ state_stack' = Front(state_stack)
               /\ stack' = Front(stack)
          /\ state_trans.kind = "Swap" =>
               /\ Last(life[state_trans.by]) = "exit"
               /\ state_stack' = Append(Front(state_stack), state_trans.state)
               /\ stack' = Append(Front(stack), WorldState_new)]_vars

\* init of the state swapped in for the initial state is running on an empty
\* WorldState; the initial state had created an entity in its own WorldState
\* and has been exited.
C13_Witness ==
  /\ cb = [kind |-> "init", sid |-> 2]
  /\ state_trans.kind = "Swap"
  /\ life[1] = <<"init", "update", "exit">>
  /\ steps = 1
  /\ last_call.op = "create"
  /\ stack = << WorldState_new >>

\* ------------------------------------------------------ C20
\* C20: the callbacks an instance has received are init, then updates, then at
\* most one exit and nothing after it; a callback in progress runs on the
\* instance on top of the state stack; and at the loop head and in update every
\* instance on the state stack has been initialised and none has been exited.
C20_InitOnceThenUpdatesThenExit ==
  /\ \A s \in 1 .. Len(life) : \A i \in 1 .. Len(life[s]) :
       /\ (life[s][i] = "init") <=> (i = 1)
       /\ (life[s][i] = "exit") => (i = Len(life[s]))
  /\ cb # NoCb =>
       /\ state_stack # <<>>
       /\ cb.sid = Last(state_stack)
       /\ Last(life[cb.sid]) = cb.kind
  /\ pc \in {"L25", "L26"} =>
       \A k \in 1 .. Len(state_stack) :
         /\ life[state_stack[k]] # <<>>
         /\ "exit" \notin SeqElems(life[state_stack[k]])

\* The initial state is in its second update, its first since the state pushed
\* on top of it returned Pop and was exited: it was initialised once.
C20_Witness ==
  /\ cb = [kind |-> "update", sid |-> 1]
  /\ state_stack = <<1>>
  /\ Len(life) = 2
  /\ life[1] = <<"init", "update", "update">>
  /\ life[2] = <<"init", "update", "exit">>

\* ------------------------------------------------------ C21
\* C21: the step that takes the last State off the state stack is the pop of a
\* Pop transition whose exit has been called; it returns and leaves both stacks
\* empty at the loop head.  From an empty stack of either kind no step enters a
\* callback or changes a stack, and the step at line 26, an event having arrived,
\* is a panic.  No callback is ever in progress on an empty World stack.
C21_LastPopCompletesThenFatal ==
  [][/\ (state_stack # <<>> /\ state_stack' = <<>>) =>
          /\ state_trans.kind = "Pop"
          /\ state_stack = << state_trans.by >>
          /\ Last(life[state_trans.by]) = "exit"
          /\ stack' = <<>>
          /\ ~panicked'
          /\ pc' = "L25"
     /\ (state_stack = <<>> \/ stack = <<>>) =>
          /\ cb' = NoCb
          /\ life' = life
          /\ stack' = stack
          /\ state_stack' = state_stack
          /\ pc = "L26" => panicked'
     /\ cb' # NoCb => stack' # <<>>]_vars

\* The initial state returned Pop on the first event and was exited, both stacks
\* were popped, a second event arrived and the driver panicked at line 26.
C21_Witness ==
  /\ panicked
  /\ pc = "L26"
  /\ ticks = 2
  /\ state_stack = <<>>
  /\ stack = <<>>
  /\ cb = NoCb
  /\ life = << <<"init", "update", "exit">> >>

\* ------------------------------------------------------ C22
\* C22: in every WorldState of the stack, while the counter has not overflowed,
\* reusable_ids holds no id twice and no active id, and every id that is active
\* or in reusable_ids is below current_id.
C22_FreedIdsDistinctInactiveBelowCounter ==
  overflow_checks = "unset" =>
    \A i \in 1 .. Len(stack) :
      LET ws == stack[i]
          freed == ws.reusable_ids
      IN  /\ \A j, k \in 1 .. Len(freed) : freed[j] = freed[k] => j = k
          /\ SeqElems(freed) \cap ws.active = {}
          /\ \A id \in ws.active \cup SeqElems(freed) : id < ws.current_id

\* Two entities were created and removed and one of the freed ids has been
\* issued again: one id is freed, the other active, both below the counter.
C22_Witness ==
  /\ last_call.op = "create"
  /\ ~panicked
  /\ stack # <<>>
  /\ Top.reusable_ids = <<0>>
  /\ Top.active = {1}
  /\ Top.current_id = 3

====
